---- MODULE Spec2Model ----
(***************************************************************************)
(* A model of former/modules.py (SelfAttention, TransformerBlock) and of   *)
(* the block stack of former/transformers.py.                              *)
(*                                                                         *)
(* Tensors are records [shape, data]: data is the contiguous row-major     *)
(* storage, shape the size tuple, so that view / transpose / contiguous    *)
(* are modelled by what they do to the storage.  Floating-point numbers    *)
(* are fixed-point integers n standing for n / ONE; -inf and NaN are two   *)
(* reserved values.                                                        *)
(***************************************************************************)
EXTENDS Integers, Sequences, FiniteSets, TLC

\* ------------------------------------------------------------------ bounds
\* fixed-point resolution: the integer n stands for the number n / ONE
ONE == 8
\* inputs have 1..MaxB batch elements, 1..MaxT positions, at most MaxCells rows
MaxB == 2
MaxT == 3
MaxCells == 4
\* constructor arguments explored: emb and heads in -1..MaxEmb / -1..MaxHeads
MaxEmb == 3
MaxHeads == 2
MaxMult == 2
MaxDepth == 2
\* weight initialisations explored: seeds 0..MaxSeed
MaxSeed == 0

\* ----------------------------------------------------------------- scalars
\* float("-inf"), the maskval of modules.py:76
NegInf == -1000000
\* the NaN a softmax over a fully masked row produces (modules.py:81-90)
NaN == 1000001
\* eps of nn.LayerNorm, as the smallest positive fixed-point number
LnEps == 1

Special(a) == a = NaN \/ a = NegInf

\* integer quotient rounding toward zero, b > 0
Quot(a, b) == IF a >= 0 THEN a \div b ELSE -((-a) \div b)

FAdd(a, b) ==
  IF a = NaN \/ b = NaN THEN NaN
  ELSE IF a = NegInf \/ b = NegInf THEN NegInf
  ELSE a + b

FSub(a, b) == IF a = NaN \/ b = NaN THEN NaN ELSE a - b

FMul(a, b) == IF Special(a) \/ Special(b) THEN NaN ELSE Quot(a * b, ONE)

\* a / b; a finite number divided by zero is not needed by any reachable state
FDiv(a, b) == IF Special(a) \/ Special(b) \/ b = 0 THEN NaN ELSE Quot(a * ONE, b)

RECURSIVE ISqrtFrom(_, _)
ISqrtFrom(n, r) == IF (r + 1) * (r + 1) > n THEN r ELSE ISqrtFrom(n, r + 1)

\* math.sqrt / torch.sqrt on a non-negative fixed-point number
FSqrt(v) == ISqrtFrom(v * ONE, 0)

\* exp(d) for d <= 0, the only arguments softmax passes once the row maximum
\* is subtracted: strictly positive and increasing, exp(0) = 1, exp(-inf) = 0
FExp(d) == IF d = NegInf THEN 0 ELSE Quot(ONE * ONE, ONE - d)

\* ----------------------------------------------------------------- tensors
RECURSIVE Numel(_)
Numel(sh) == IF sh = <<>> THEN 1 ELSE Head(sh) * Numel(Tail(sh))

Null == [shape |-> <<>>, data |-> <<>>]

Front(sh) == SubSeq(sh, 1, Len(sh) - 1)
Last(sh) == sh[Len(sh)]

\* the tensor of shape sh whose storage holds F(q) at offset q (the storage is
\* built once, as a tuple, and not left as a function to re-evaluate)
Mk(sh, F(_)) == [shape |-> sh, data |-> [p \in 1..Numel(sh) |-> F(p - 1)] \o <<>>]

\* element (i, j, k) of a tensor of three dimensions
At3(t, i, j, k) == t.data[(i * t.shape[2] + j) * t.shape[3] + k + 1]

\* x.size() as the tuple the asserts compare
Size(t) == t.shape

\* sum over i < n of a[ao + i*as] * b[bo + i*bs]   (offsets are 1-based)
RECURSIVE Dotp(_, _, _, _, _, _, _)
Dotp(a, ao, as, b, bo, bs, n) ==
  IF n = 0 THEN 0
  ELSE FAdd(Dotp(a, ao, as, b, bo, bs, n - 1),
            FMul(a[ao + (n - 1) * as], b[bo + (n - 1) * bs]))

\* tensor.view(shape): the same storage under another shape
ViewOK(t, sh) == (\A d \in 1..Len(sh) : sh[d] >= 0) /\ Numel(sh) = Numel(t.shape)
View(t, sh) == [shape |-> sh, data |-> t.data]

\* tensor.transpose(1, 2).contiguous(): dimensions 1 and 2 swapped and the
\* storage rewritten in the new row-major order
Transpose12(t) ==
  LET a == t.shape[1]
      b == t.shape[2]
      c == t.shape[3]
      r == Numel(SubSeq(t.shape, 4, Len(t.shape)))
      sh == <<a, c, b>> \o SubSeq(t.shape, 4, Len(t.shape))
  IN  Mk(sh, LAMBDA q :
        LET l == q % r
            j == (q \div r) % b
            k == (q \div (r * b)) % c
            i == q \div (r * b * c)
        IN  t.data[((i * b + j) * c + k) * r + l + 1])

\* tensor / scalar
DivScalar(t, s) == Mk(t.shape, LAMBDA q : FDiv(t.data[q + 1], s))

\* a + b, elementwise on equal shapes
Add(a, b) == Mk(a.shape, LAMBDA q : FAdd(a.data[q + 1], b.data[q + 1]))

\* torch.bmm(a, b): (n,p,m) x (n,m,r) -> (n,p,r)
Bmm(a, b) ==
  LET n == a.shape[1]
      p == a.shape[2]
      m == a.shape[3]
      r == b.shape[3]
  IN  Mk(<<n, p, r>>, LAMBDA q :
        LET k == q % r
            j == (q \div r) % p
            i == q \div (r * p)
        IN  Dotp(a.data, (i * p + j) * m + 1, 1, b.data, i * m * r + k + 1, r, m))

\* nn.Linear applied: y[.., o] = sum_i x[.., i] * weight[o, i] + bias[o]
LinearOK(lin, t) == Len(t.shape) >= 1 /\ Last(t.shape) = lin.in_features
Linear(lin, t) ==
  LET nin == lin.in_features
      nout == lin.out_features
  IN  Mk(Front(t.shape) \o <<nout>>, LAMBDA q :
        LET o == q % nout
            row == q \div nout
            acc == Dotp(t.data, row * nin + 1, 1, lin.weight, o * nin + 1, 1, nin)
        IN  IF lin.bias = <<>> THEN acc ELSE FAdd(acc, lin.bias[o + 1]))

\* nn.ReLU
ReLU(t) == Mk(t.shape, LAMBDA q :
             LET v == t.data[q + 1] IN IF v = NaN THEN NaN ELSE IF v > 0 THEN v ELSE 0)

RECURSIVE RowMax(_, _, _)
RowMax(d, off, n) ==
  IF n = 1 THEN d[off]
  ELSE LET m == RowMax(d, off, n - 1)
           v == d[off + n - 1]
       IN  IF m = NaN \/ v = NaN THEN NaN ELSE IF v > m THEN v ELSE m

RECURSIVE ExpSum(_, _, _, _)
ExpSum(d, off, n, m) ==
  IF n = 0 THEN 0 ELSE ExpSum(d, off, n - 1, m) + FExp(IF d[off + n - 1] = NegInf THEN NegInf ELSE d[off + n - 1] - m)

\* F.softmax(t, dim=2) on (n, t, t): exp(s - max) / sum exp(s - max) per row;
\* a row whose entries are all -inf has max -inf and yields NaN
Softmax2(t) ==
  LET w == t.shape[3]
  IN  Mk(t.shape, LAMBDA q :
        LET off == (q \div w) * w + 1
            m == RowMax(t.data, off, w)
            s == t.data[q + 1]
        IN  IF m = NaN \/ m = NegInf THEN NaN
            ELSE Quot(FExp(IF s = NegInf THEN NegInf ELSE s - m) * ONE,
                      ExpSum(t.data, off, w, m)))

RECURSIVE SumRow(_, _, _)
SumRow(d, off, n) == IF n = 0 THEN 0 ELSE FAdd(SumRow(d, off, n - 1), d[off + n - 1])

RECURSIVE SumSqDev(_, _, _, _)
SumSqDev(d, off, n, mean) ==
  IF n = 0 THEN 0
  ELSE FAdd(SumSqDev(d, off, n - 1, mean),
            FMul(FSub(d[off + n - 1], mean), FSub(d[off + n - 1], mean)))

\* nn.LayerNorm over the last dimension: (x - mean) / sqrt(var + eps) * weight + bias
LayerNorm(ln, t) ==
  LET e == ln.normalized_shape
  IN  Mk(t.shape, LAMBDA q :
        LET off == (q \div e) * e + 1
            f == q % e
            sum == SumRow(t.data, off, e)
            mean == IF sum = NaN THEN NaN ELSE Quot(sum, e)
            ssd == SumSqDev(t.data, off, e, mean)
            var == IF ssd = NaN THEN NaN ELSE Quot(ssd, e)
            sd == IF var = NaN THEN NaN ELSE FSqrt(var + LnEps)
        IN  FAdd(FMul(FDiv(FSub(t.data[q + 1], mean), sd), ln.weight[f + 1]),
                 ln.bias[f + 1]))

\* F.dropout(x, p, training) with the keep pattern the random source drew:
\* kept elements are rescaled by 1 / (1 - p)
Dropout(do, t, keep) ==
  IF ~do.training \/ do.p = 0 THEN t
  ELSE Mk(t.shape, LAMBDA q :
         IF keep[q + 1] THEN FDiv(t.data[q + 1], ONE - do.p) ELSE 0)

\* ------------------------------------------------------------ construction
\* the values nn.Linear's random initialisation leaves in weight[o, i]
WInit(seed, tag, o, i) == (((seed + tag + 2 * o + i + o * i) % 3) - 1) * ONE
BInit(seed, tag, o) == (((seed + tag + o) % 3) - 1) * (ONE \div 2)

\* nn.Linear(in_features, out_features, bias): weight is (out, in) row-major
MkLinear(nin, nout, hasBias, seed, tag) ==
  [in_features |-> nin, out_features |-> nout,
   weight |-> [p \in 1..(nout * nin) |-> WInit(seed, tag, (p - 1) \div nin, (p - 1) % nin)] \o <<>>,
   bias |-> IF hasBias THEN [o \in 1..nout |-> BInit(seed, tag, o - 1)] \o <<>> ELSE <<>>]

\* nn.LayerNorm(emb): weight of ones, bias of zeros
MkLayerNorm(emb) ==
  [normalized_shape |-> emb, weight |-> [f \in 1..emb |-> ONE], bias |-> [f \in 1..emb |-> 0]]

\* how constructing nn.Linear(nin, nout) can end: a negative size is refused by
\* the allocation; with nin = 0 the initialisation divides by sqrt(fan_in) in
\* older torch releases and is a no-op in newer ones
LinearCtor(nin, nout) ==
  IF nin < 0 \/ nout < 0 THEN {"RuntimeError"}
  ELSE IF nin = 0 THEN {"ok", "ZeroDivisionError"}
  ELSE {"ok"}

RECURSIVE CtorSeq(_)
CtorSeq(dims) ==
  IF dims = <<>> THEN {"ok"}
  ELSE LET o == LinearCtor(dims[1][1], dims[1][2])
       IN  (o \ {"ok"}) \cup (IF "ok" \in o THEN CtorSeq(Tail(dims)) ELSE {})

\* SelfAttention.__init__
SelfAttentionCtor(emb, heads) ==
  CtorSeq(<< <<emb, emb * heads>>, <<emb, emb * heads>>, <<emb, emb * heads>>,
             <<heads * emb, emb>> >>)
SelfAttentionInit(emb, heads, mask, seed) ==
  [emb |-> emb, heads |-> heads, mask |-> mask,
   tokeys |-> MkLinear(emb, emb * heads, FALSE, seed, 0),
   toqueries |-> MkLinear(emb, emb * heads, FALSE, seed, 1),
   tovalues |-> MkLinear(emb, emb * heads, FALSE, seed, 2),
   unifyheads |-> MkLinear(heads * emb, emb, TRUE, seed, 3)]

\* TransformerBlock.__init__ (seq_length is accepted and not used)
TransformerBlockCtor(emb, heads, mult) ==
  LET a == SelfAttentionCtor(emb, heads)
  IN  (a \ {"ok"}) \cup
      (IF "ok" \in a
       THEN CtorSeq(<< <<emb, mult * emb>>, <<mult * emb, emb>> >>)
       ELSE {})
TransformerBlockInit(emb, heads, mask, mult, dropout, seed) ==
  [attention |-> SelfAttentionInit(emb, heads, mask, seed),
   mask |-> mask,
   norm1 |-> MkLayerNorm(emb),
   norm2 |-> MkLayerNorm(emb),
   ff |-> [lin1 |-> MkLinear(emb, mult * emb, TRUE, seed, 4),
           lin2 |-> MkLinear(mult * emb, emb, TRUE, seed, 5)],
   do |-> [p |-> dropout, training |-> TRUE]]

\* the loop that builds tblocks: depth blocks of one configuration
StackInit(emb, heads, mask, mult, dropout, depth, seed) ==
  [i \in 1..depth |-> TransformerBlockInit(emb, heads, mask, mult, dropout, seed + i - 1)]

\* ------------------------------------------------------- the forward steps
\* util.mask_(matrices, maskval, mask_diagonal): in every matrix, the entries
\* above the diagonal (and the diagonal, when mask_diagonal) become maskval
mask_(matrices, maskval, mask_diagonal) ==
  LET h == matrices.shape[2]
      w == matrices.shape[3]
  IN  Mk(matrices.shape, LAMBDA q :
        LET j == q % w
            i == (q \div w) % h
        IN  IF j > i \/ (mask_diagonal /\ j = i) THEN maskval ELSE matrices.data[q + 1])

\* self.tokeys(x).view(b, t, h, e), and likewise for queries and values
ProjectView(lin, x, h) ==
  View(Linear(lin, x), <<x.shape[1], x.shape[2], h, x.shape[3]>>)
ProjectViewOK(lin, x, h) ==
  LinearOK(lin, x) /\ ViewOK(Linear(lin, x), <<x.shape[1], x.shape[2], h, x.shape[3]>>)

FoldHeadsNoTranspose(t4) ==
  View(t4, <<t4.shape[1] * t4.shape[3], t4.shape[2], t4.shape[4]>>)
\* keys.transpose(1, 2).contiguous().view(b * h, t, e) on a (b, t, h, e) tensor
FoldHeads(t4) ==
  View(Transpose12(t4), <<t4.shape[1] * t4.shape[3], t4.shape[2], t4.shape[4]>>)

\* queries / math.sqrt(e)
ScaleQueries(q, e) == DivScalar(q, FSqrt(e * ONE))

\* torch.bmm(queries, keys.transpose(1, 2))
Scores(q, k) == Bmm(q, Transpose12(k))

MaskStepNever(sa, dot) == dot
MaskStepAlways(sa, dot) == mask_(dot, NegInf, FALSE)
MaskStepDiagonal(sa, dot) == IF sa.mask THEN mask_(dot, NegInf, TRUE) ELSE dot
\* if self.mask: mask_(dot, maskval=float("-inf"), mask_diagonal=False)
MaskStep(sa, dot) == IF sa.mask THEN mask_(dot, NegInf, FALSE) ELSE dot

\* torch.bmm(dot, values).view(b, h, t, e)
ApplyAttention(dot, values, b, h, t, e) == View(Bmm(dot, values), <<b, h, t, e>>)

\* out.transpose(1, 2).contiguous().view(b, t, h * e) on a (b, h, t, e) tensor
UnfoldHeads(out) ==
  View(Transpose12(out), <<out.shape[1], out.shape[3], out.shape[2] * out.shape[4]>>)

UnifyHeadsSkipped(sa, out) == out
\* self.unifyheads(out)
UnifyHeads(sa, out) == Linear(sa.unifyheads, out)

\* self.ff(x): Linear, ReLU, Linear
FeedForward(ff, x) == Linear(ff.lin2, ReLU(Linear(ff.lin1, x)))

AllKeep(n) == [i \in 1..n |-> TRUE]

\* SelfAttention.forward as a function of the instance and its input
AttnForward(sa, x) ==
  LET b == x.shape[1]
      t == x.shape[2]
      e == x.shape[3]
      h == sa.heads
      keys == FoldHeads(ProjectView(sa.tokeys, x, h))
      queries == ScaleQueries(FoldHeads(ProjectView(sa.toqueries, x, h)), e)
      values == FoldHeads(ProjectView(sa.tovalues, x, h))
      dot == Softmax2(MaskStep(sa, Scores(queries, keys)))
  IN  UnifyHeads(sa, UnfoldHeads(ApplyAttention(dot, values, b, h, t, e)))

\* TransformerBlock.forward as a function of the instance, its input and the
\* two keep patterns its dropout draws
BlockForward(blk, x, keep1, keep2) ==
  LET attended == AttnForward(blk.attention, x)
      x1 == Dropout(blk.do, LayerNorm(blk.norm1, Add(attended, x)), keep1)
      fedforward == FeedForward(blk.ff, x1)
  IN  Dropout(blk.do, LayerNorm(blk.norm2, Add(fedforward, x1)), keep2)

\* self.tblocks(x): the blocks applied in order (dropout drawing no zeros)
RECURSIVE StackForward(_, _)
StackForward(blocks, x) ==
  IF blocks = <<>> THEN x
  ELSE StackForward(Tail(blocks),
                    BlockForward(Head(blocks), x, AllKeep(Numel(x.shape)), AllKeep(Numel(x.shape))))

\* the keep patterns the dropout random source is let to draw
MaxKeep == 1
KeepPatterns(n) == {[i \in 1..n |-> k = 0 \/ (i + k) % 2 = 0] : k \in 0..MaxKeep}

\* ------------------------------------------------------------------- state
VARIABLES
  callers,   \* the threads that call forward on the one shared instance
  ctor,      \* "none" before construction, then "ok" or the exception raised
  tblocks,   \* the constructed stack: a sequence of TransformerBlock instances
  pc,        \* pc[c]: where caller c stands in forward
  frame      \* frame[c]: the local variables of caller c's forward

vars == <<callers, ctor, tblocks, pc, frame>>

Calls == {1, 2}

\* the sets of constructor arguments and inputs explored: the full ones with a
\* single caller, one configuration per mask flag with two concurrent callers
Wide == Cardinality(callers) = 1
EmbArgs == IF Wide THEN -1..MaxEmb ELSE {MaxEmb}
HeadArgs == IF Wide THEN -1..MaxHeads ELSE {MaxHeads}
MultArgs == IF Wide THEN 1..MaxMult ELSE {1}
DropoutArgs == IF Wide THEN {0, ONE \div 2} ELSE {0}
DepthArgs == IF Wide THEN 1..MaxDepth ELSE {1}
SeedArgs == IF Wide THEN 0..MaxSeed ELSE {0}

Tokens == {0, 1}
\* feature f of the embedding row of token v
RowVal(v, f) == (((v * (f + 1) + f) % 3) - 1) * ONE
InputOf(b, t, e, toks) ==
  [shape |-> <<b, t, e>>,
   data |-> [p \in 1..(b * t * e) |-> RowVal(toks[((p - 1) \div e) + 1], (p - 1) % e)] \o <<>>]
InputShapes ==
  {<<b, t>> \in (1..MaxB) \X (1..MaxT) :
     b * t <= (IF Wide THEN MaxCells ELSE 2)}
InputsOfShape(b, t, e) == {InputOf(b, t, e, toks) : toks \in [1..(b * t) -> Tokens]}
Inputs ==
  UNION {InputsOfShape(bt[1], bt[2], e) : bt \in InputShapes, e \in 0..MaxEmb}

NoFrame ==
  [layer |-> 0, arg |-> Null, xin |-> Null, x |-> Null,
   b |-> 0, t |-> 0, e |-> 0, h |-> 0,
   keys |-> Null, queries |-> Null, values |-> Null, dot |-> Null, out |-> Null,
   attended |-> Null, summed |-> Null, fedforward |-> Null,
   keep1 |-> <<>>, keep2 |-> <<>>, ret |-> Null, err |-> "none"]

Init ==
  /\ callers = {1}
  /\ ctor = "none"
  /\ tblocks = <<>>
  /\ pc = [c \in Calls |-> "idle"]
  /\ frame = [c \in Calls |-> NoFrame]

InitConcurrent ==
  /\ callers = Calls
  /\ ctor = "none"
  /\ tblocks = <<>>
  /\ pc = [c \in Calls |-> "idle"]
  /\ frame = [c \in Calls |-> NoFrame]

\* the block caller c is in, and its attention
Blk(c) == tblocks[frame[c].layer]
Attn(c) == Blk(c).attention

Goto(c, label) == pc' = [pc EXCEPT ![c] = label]
Raise(c, exc) ==
  /\ pc' = [pc EXCEPT ![c] = "failed"]
  /\ frame' = [frame EXCEPT ![c].err = exc]

\* ----------------------------------------------------------------- actions
\* the constructors: TransformerBlock(...) for each of depth blocks
Construct ==
  /\ ctor = "none"
  /\ \E emb \in EmbArgs, heads \in HeadArgs, mask \in BOOLEAN, mult \in MultArgs,
        dropout \in DropoutArgs, depth \in DepthArgs, seed \in SeedArgs :
        \E outcome \in TransformerBlockCtor(emb, heads, mult) :
          /\ ctor' = outcome
          /\ tblocks' = IF outcome = "ok"
                        THEN StackInit(emb, heads, mask, mult, dropout, depth, seed)
                        ELSE <<>>
  /\ UNCHANGED <<callers, pc, frame>>

\* a caller passes x to the stack, which hands it to its first block, which
\* calls self.attention(x)
Invoke(c) ==
  /\ ctor = "ok"
  /\ c \in callers
  /\ pc[c] = "idle"
  /\ \E x \in Inputs :
       frame' = [frame EXCEPT ![c] = [NoFrame EXCEPT !.layer = 1, !.arg = x, !.xin = x, !.x = x]]
  /\ Goto(c, "attn_size")
  /\ UNCHANGED <<callers, ctor, tblocks>>

\* a forward that gives the input back where the widths differ
AttnSizeLenient(c) ==
  /\ pc[c] = "attn_size"
  /\ frame' = [frame EXCEPT ![c].b = frame[c].x.shape[1], ![c].t = frame[c].x.shape[2],
                            ![c].e = frame[c].x.shape[3], ![c].h = Attn(c).heads,
                            ![c].attended = frame[c].x]
  /\ Goto(c, IF frame[c].x.shape[3] = Attn(c).emb THEN "attn_project" ELSE "blk_add1")
  /\ UNCHANGED <<callers, ctor, tblocks>>

\* b, t, e = x.size(); h = self.heads; assert e == self.emb
\* (an assert is skipped when the interpreter runs with -O)
AttnSize(c) ==
  /\ pc[c] = "attn_size"
  /\ LET x == frame[c].x
         sized == [frame EXCEPT ![c].b = x.shape[1], ![c].t = x.shape[2],
                                ![c].e = x.shape[3], ![c].h = Attn(c).heads]
     IN  \/ /\ x.shape[3] = Attn(c).emb
            /\ frame' = sized
            /\ Goto(c, "attn_project")
         \/ /\ x.shape[3] # Attn(c).emb
            /\ pc' = [pc EXCEPT ![c] = "failed"]
            /\ frame' = [sized EXCEPT ![c].err = "AssertionError"]
         \/ /\ x.shape[3] # Attn(c).emb
            /\ frame' = sized
            /\ Goto(c, "attn_project")
  /\ UNCHANGED <<callers, ctor, tblocks>>

\* keys / queries / values = self.to...(x).view(b, t, h, e)
Project(c) ==
  /\ pc[c] = "attn_project"
  /\ LET f == frame[c]
         sa == Attn(c)
     IN  IF /\ ProjectViewOK(sa.tokeys, f.x, f.h)
            /\ ProjectViewOK(sa.toqueries, f.x, f.h)
            /\ ProjectViewOK(sa.tovalues, f.x, f.h)
         THEN /\ frame' = [frame EXCEPT ![c].keys = ProjectView(sa.tokeys, f.x, f.h),
                                         ![c].queries = ProjectView(sa.toqueries, f.x, f.h),
                                         ![c].values = ProjectView(sa.tovalues, f.x, f.h)]
              /\ Goto(c, "attn_fold")
         ELSE Raise(c, "RuntimeError")
  /\ UNCHANGED <<callers, ctor, tblocks>>

\* fold heads into the batch dimension
Fold(c) ==
  /\ pc[c] = "attn_fold"
  /\ frame' = [frame EXCEPT ![c].keys = FoldHeads(@), ![c].queries = FoldHeads(@),
                            ![c].values = FoldHeads(@)]
  /\ Goto(c, "attn_scale")
  /\ UNCHANGED <<callers, ctor, tblocks>>

\* the scaling done once and for all on the weights of toqueries
ScaleInPlace(c) ==
  /\ pc[c] = "attn_scale"
  /\ tblocks' = [tblocks EXCEPT ![frame[c].layer].attention.toqueries.weight =
                  [p \in 1..Len(@) |-> FDiv(@[p], FSqrt(frame[c].e * ONE))] \o <<>>]
  /\ Goto(c, "attn_dot")
  /\ UNCHANGED <<callers, ctor, frame>>

\* queries = queries / math.sqrt(e)
Scale(c) ==
  /\ pc[c] = "attn_scale"
  /\ frame' = [frame EXCEPT ![c].queries = ScaleQueries(@, frame[c].e)]
  /\ Goto(c, "attn_dot")
  /\ UNCHANGED <<callers, ctor, tblocks>>

\* dot = torch.bmm(...); assert dot.size() == (b * h, t, t)
Dot(c) ==
  /\ pc[c] = "attn_dot"
  /\ LET f == frame[c]
         dot == Scores(f.queries, f.keys)
     IN  IF Size(dot) = <<f.b * f.h, f.t, f.t>>
         THEN /\ frame' = [frame EXCEPT ![c].dot = dot]
              /\ Goto(c, "attn_mask")
         ELSE Raise(c, "AssertionError")
  /\ UNCHANGED <<callers, ctor, tblocks>>

Mask(c) ==
  /\ pc[c] = "attn_mask"
  /\ frame' = [frame EXCEPT ![c].dot = MaskStep(Attn(c), @)]
  /\ Goto(c, "attn_softmax")
  /\ UNCHANGED <<callers, ctor, tblocks>>

Softmax(c) ==
  /\ pc[c] = "attn_softmax"
  /\ frame' = [frame EXCEPT ![c].dot = Softmax2(@)]
  /\ Goto(c, "attn_apply")
  /\ UNCHANGED <<callers, ctor, tblocks>>

Apply(c) ==
  /\ pc[c] = "attn_apply"
  /\ LET f == frame[c]
     IN  frame' = [frame EXCEPT ![c].out = ApplyAttention(f.dot, f.values, f.b, f.h, f.t, f.e)]
  /\ Goto(c, "attn_unfold")
  /\ UNCHANGED <<callers, ctor, tblocks>>

Unfold(c) ==
  /\ pc[c] = "attn_unfold"
  /\ frame' = [frame EXCEPT ![c].out = UnfoldHeads(@)]
  /\ Goto(c, "attn_unify")
  /\ UNCHANGED <<callers, ctor, tblocks>>

\* return self.unifyheads(out), received by the block as attended
Unify(c) ==
  /\ pc[c] = "attn_unify"
  /\ frame' = [frame EXCEPT ![c].attended = UnifyHeads(Attn(c), frame[c].out)]
  /\ Goto(c, "blk_add1")
  /\ UNCHANGED <<callers, ctor, tblocks>>

\* attended + x, the argument of norm1
Add1(c) ==
  /\ pc[c] = "blk_add1"
  /\ frame' = [frame EXCEPT ![c].summed = Add(frame[c].attended, frame[c].x)]
  /\ Goto(c, "blk_norm1")
  /\ UNCHANGED <<callers, ctor, tblocks>>

Norm1(c) ==
  /\ pc[c] = "blk_norm1"
  /\ frame' = [frame EXCEPT ![c].x = LayerNorm(Blk(c).norm1, frame[c].summed)]
  /\ Goto(c, "blk_do1")
  /\ UNCHANGED <<callers, ctor, tblocks>>

DropoutActive(do) == do.training /\ do.p # 0
Draws(do, t) ==
  IF DropoutActive(do) THEN KeepPatterns(Numel(t.shape)) ELSE {AllKeep(Numel(t.shape))}

Drop1(c) ==
  /\ pc[c] = "blk_do1"
  /\ \E keep \in Draws(Blk(c).do, frame[c].x) :
       frame' = [frame EXCEPT ![c].x = Dropout(Blk(c).do, @, keep), ![c].keep1 = keep]
  /\ Goto(c, "blk_ff")
  /\ UNCHANGED <<callers, ctor, tblocks>>

FF(c) ==
  /\ pc[c] = "blk_ff"
  /\ frame' = [frame EXCEPT ![c].fedforward = FeedForward(Blk(c).ff, frame[c].x)]
  /\ Goto(c, "blk_add2")
  /\ UNCHANGED <<callers, ctor, tblocks>>

Add2Original(c) ==
  /\ pc[c] = "blk_add2"
  /\ frame' = [frame EXCEPT ![c].summed = Add(frame[c].fedforward, frame[c].xin)]
  /\ Goto(c, "blk_norm2")
  /\ UNCHANGED <<callers, ctor, tblocks>>

\* fedforward + x, the argument of norm2
Add2(c) ==
  /\ pc[c] = "blk_add2"
  /\ frame' = [frame EXCEPT ![c].summed = Add(frame[c].fedforward, frame[c].x)]
  /\ Goto(c, "blk_norm2")
  /\ UNCHANGED <<callers, ctor, tblocks>>

Norm2(c) ==
  /\ pc[c] = "blk_norm2"
  /\ frame' = [frame EXCEPT ![c].x = LayerNorm(Blk(c).norm2, frame[c].summed)]
  /\ Goto(c, "blk_do2")
  /\ UNCHANGED <<callers, ctor, tblocks>>

Drop2(c) ==
  /\ pc[c] = "blk_do2"
  /\ \E keep \in Draws(Blk(c).do, frame[c].x) :
       frame' = [frame EXCEPT ![c].x = Dropout(Blk(c).do, @, keep), ![c].keep2 = keep]
  /\ Goto(c, "blk_return")
  /\ UNCHANGED <<callers, ctor, tblocks>>

\* return x; the stack passes it to the next block or returns it
Return(c) ==
  /\ pc[c] = "blk_return"
  /\ IF frame[c].layer < Len(tblocks)
     THEN /\ frame' = [frame EXCEPT ![c].layer = @ + 1, ![c].xin = frame[c].x]
          /\ Goto(c, "attn_size")
     ELSE /\ frame' = [frame EXCEPT ![c].ret = frame[c].x]
          /\ Goto(c, "done")
  /\ UNCHANGED <<callers, ctor, tblocks>>

Step(c) ==
  \/ Invoke(c) \/ AttnSize(c) \/ Project(c) \/ Fold(c) \/ Scale(c) \/ Dot(c)
  \/ Mask(c) \/ Softmax(c) \/ Apply(c) \/ Unfold(c) \/ Unify(c)
  \/ Add1(c) \/ Norm1(c) \/ Drop1(c) \/ FF(c) \/ Add2(c) \/ Norm2(c) \/ Drop2(c)
  \/ Return(c)

Next == Construct \/ \E c \in Calls : Step(c)

Spec == Init /\ [][Next]_vars
SpecConcurrent == InitConcurrent /\ [][Next]_vars

\* ------------------------------------------------------------------ claims
Started(c) == pc[c] \notin {"idle"}
Heads(c) == Attn(c).heads
Emb(c) == Attn(c).emb
\* the instance is one the claims call valid: emb >= 1 and heads >= 1
ValidConfig == ctor = "ok" /\ \A i \in 1..Len(tblocks) :
                 tblocks[i].attention.emb >= 1 /\ tblocks[i].attention.heads >= 1

\* C1: for an input of shape (B,T,E), B >= 1, T >= 1, E the configured width,
\* and H >= 1, SelfAttention.forward returns a tensor of shape (B,T,E) and so
\* does TransformerBlock.forward, whatever H, the mask flag and ff_hidden_mult.
C1_ShapeInvariance ==
  \A c \in Calls :
    (Started(c) /\ ValidConfig /\ frame[c].xin.shape[3] = Emb(c)
       /\ frame[c].xin.shape[1] >= 1 /\ frame[c].xin.shape[2] >= 1) =>
      LET B == frame[c].xin.shape[1]
          T == frame[c].xin.shape[2]
          E == Emb(c)
      IN  /\ pc[c] = "blk_add1" => Size(frame[c].attended) = <<B, T, E>>
          /\ pc[c] = "blk_return" => Size(frame[c].x) = <<B, T, E>>
          /\ pc[c] = "done" => Size(frame[c].ret) = <<B, T, E>>

C1_Witness ==
  \E c \in Calls :
    /\ pc[c] = "done" /\ ValidConfig
    /\ Heads(c) = 2 /\ Blk(c).mask /\ Blk(c).ff.lin1.out_features = 2 * Emb(c)
    /\ Size(frame[c].ret) = <<2, 2, 2>>

\* C2: with the mask enabled, in each of the B*H attention matrices and for
\* all positions i < j, the score of (i, j) is -inf before the softmax and the
\* attention weight of (i, j) is exactly 0 after it.
C2_CausalMasking ==
  \A c \in Calls :
    (pc[c] \in {"attn_softmax", "attn_apply"} /\ Attn(c).mask) =>
      \A n \in 0..(frame[c].b * frame[c].h - 1), i \in 0..(frame[c].t - 1),
         j \in 0..(frame[c].t - 1) :
        i < j =>
          /\ pc[c] = "attn_softmax" => At3(frame[c].dot, n, i, j) = NegInf
          /\ pc[c] = "attn_apply" => At3(frame[c].dot, n, i, j) = 0

C2_Witness ==
  \E c \in Calls :
    /\ pc[c] = "attn_apply" /\ Attn(c).mask
    /\ frame[c].b * frame[c].h = 4 /\ frame[c].t = 2
    /\ At3(frame[c].dot, 3, 0, 1) = 0
    /\ At3(frame[c].dot, 3, 1, 0) > 0 /\ At3(frame[c].dot, 3, 1, 1) > 0

\* C9: under the causal mask with T >= 1, the key positions left with a finite
\* score in query row i are exactly {j : j <= i}, which holds the diagonal, so
\* every row has a visible position and the softmax of no row is NaN.
C9_NoFullyMaskedRow ==
  \A c \in Calls :
    (pc[c] \in {"attn_softmax", "attn_apply"} /\ Attn(c).mask /\ frame[c].t >= 1) =>
      \A n \in 0..(frame[c].b * frame[c].h - 1), i \in 0..(frame[c].t - 1) :
        /\ pc[c] = "attn_softmax" =>
             /\ {j \in 0..(frame[c].t - 1) : At3(frame[c].dot, n, i, j) # NegInf}
                  = {j \in 0..(frame[c].t - 1) : j <= i}
             /\ At3(frame[c].dot, n, i, i) # NegInf
        /\ pc[c] = "attn_apply" =>
             \A j \in 0..(frame[c].t - 1) : At3(frame[c].dot, n, i, j) # NaN

C9_Witness ==
  \E c \in Calls :
    /\ pc[c] = "attn_softmax" /\ Attn(c).mask /\ frame[c].t = 3
    /\ frame[c].b * frame[c].h >= 1
    /\ {j \in 0..2 : At3(frame[c].dot, 0, 0, j) # NegInf} = {0}

RECURSIVE SeqSum(_)
SeqSum(q) == IF q = <<>> THEN 0 ELSE FAdd(SeqSum(Front(q)), Last(q))

\* C10: folding maps the (batch b, head h) slice of keys, queries and values
\* to folded index b*H+h; the scores and the attended values of a folded index
\* are computed from that index's queries, keys and values alone; unfolding
\* puts the result of folded index b*H+h at batch b, position t, feature
\* columns h*E .. (h+1)*E - 1 of the (B,T,H*E) tensor given to unifyheads.
C10_FoldUnfold ==
  \A c \in Calls :
    (pc[c] \in {"attn_scale", "attn_mask", "attn_unfold", "attn_unify"}) =>
      LET f == frame[c]
          B == f.b
          T == f.t
          E == f.e
          H == f.h
          sa == Attn(c)
      IN  \A b \in 0..(B - 1), h \in 0..(H - 1), t \in 0..(T - 1) :
            LET n == b * H + h
            IN  /\ pc[c] = "attn_scale" =>
                     \A e \in 0..(E - 1) :
                       /\ At3(f.keys, n, t, e) = At3(Linear(sa.tokeys, f.x), b, t, h * E + e)
                       /\ At3(f.queries, n, t, e) = At3(Linear(sa.toqueries, f.x), b, t, h * E + e)
                       /\ At3(f.values, n, t, e) = At3(Linear(sa.tovalues, f.x), b, t, h * E + e)
                /\ pc[c] = "attn_mask" =>
                     \A j \in 0..(T - 1) :
                       At3(f.dot, n, t, j) =
                         SeqSum([e \in 1..E |->
                                  FMul(At3(f.queries, n, t, e - 1), At3(f.keys, n, j, e - 1))])
                /\ pc[c] = "attn_unfold" =>
                     /\ Size(f.out) = <<B, H, T, E>>
                     /\ \A e \in 0..(E - 1) :
                          f.out.data[(n * T + t) * E + e + 1] =
                            SeqSum([j \in 1..T |->
                                     FMul(At3(f.dot, n, t, j - 1), At3(f.values, n, j - 1, e))])
                /\ pc[c] = "attn_unify" =>
                     /\ Size(f.out) = <<B, T, H * E>>
                     /\ \A e \in 0..(E - 1) :
                          At3(f.out, b, t, h * E + e) =
                            SeqSum([j \in 1..T |->
                                     FMul(At3(f.dot, n, t, j - 1), At3(f.values, n, j - 1, e))])

\* C4: when the last dimension of the input differs from the configured width,
\* the call fails with a fatal error before any projection or attention result
\* exists, returns nothing, and the failure is the failure of
\* TransformerBlock.forward too: the call never gets past the size check or the
\* first projection, and leaves no tensor behind.
C4_ShapeMismatchFails ==
  \A c \in Calls :
    (Started(c) /\ frame[c].layer = 1 /\ frame[c].arg.shape[3] # Emb(c)) =>
      /\ pc[c] \in {"attn_size", "attn_project", "failed"}
      /\ pc[c] = "failed" => frame[c].err \in {"AssertionError", "RuntimeError"}
      /\ frame[c].keys = Null /\ frame[c].queries = Null /\ frame[c].values = Null
      /\ frame[c].dot = Null /\ frame[c].out = Null /\ frame[c].attended = Null
      /\ frame[c].fedforward = Null /\ frame[c].ret = Null
      /\ frame[c].x = frame[c].arg

C4_Witness ==
  \E c \in Calls :
    /\ pc[c] = "failed" /\ frame[c].err = "AssertionError"
    /\ ValidConfig /\ Emb(c) = 2 /\ frame[c].arg.shape = <<2, 2, 1>>

\* C5: constructing SelfAttention, or a TransformerBlock that owns one, with
\* a non-positive embedding width or head count fails at construction, so no
\* instance with emb <= 0 or heads <= 0 exists.
C5_ConfigurationError ==
  ctor = "ok" =>
    \A i \in 1..Len(tblocks) :
      tblocks[i].attention.emb > 0 /\ tblocks[i].attention.heads > 0

\* C8: TransformerBlock.forward computes, in this order: attention on X, the
\* residual sum with X, norm1, dropout (giving X1), the feed-forward sublayer
\* on X1, the residual sum with X1 (not with X), norm2, dropout, return.
C8_BlockOrder ==
  \A c \in Calls :
    (pc[c] \in {"blk_add1", "blk_norm1", "blk_do1", "blk_ff", "blk_add2", "blk_norm2",
                "blk_do2", "blk_return"}) =>
      LET f == frame[c]
          blk == Blk(c)
          X == f.xin
          X1 == Dropout(blk.do, LayerNorm(blk.norm1, Add(f.attended, X)), f.keep1)
      IN  /\ pc[c] = "blk_add1" => f.attended = AttnForward(blk.attention, X) /\ f.x = X
          /\ pc[c] = "blk_norm1" => f.summed = Add(f.attended, X) /\ f.x = X
          /\ pc[c] = "blk_do1" => f.x = LayerNorm(blk.norm1, Add(f.attended, X))
          /\ pc[c] = "blk_ff" => f.x = X1
          /\ pc[c] = "blk_add2" => f.fedforward = FeedForward(blk.ff, X1) /\ f.x = X1
          /\ pc[c] = "blk_norm2" => f.summed = Add(FeedForward(blk.ff, X1), X1) /\ f.x = X1
          /\ pc[c] = "blk_do2" =>
               f.x = LayerNorm(blk.norm2, Add(FeedForward(blk.ff, X1), X1))
          /\ pc[c] = "blk_return" =>
               f.x = Dropout(blk.do,
                             LayerNorm(blk.norm2, Add(FeedForward(blk.ff, X1), X1)),
                             f.keep2)

C8_Witness ==
  \E c \in Calls :
    /\ pc[c] = "blk_return" /\ ValidConfig /\ frame[c].layer = 2
    /\ DropoutActive(Blk(c).do)
    /\ frame[c].keep1 # frame[c].keep2
    /\ frame[c].x # frame[c].xin
    /\ frame[c].x # LayerNorm(Blk(c).norm2, frame[c].summed)
    /\ Add(frame[c].fedforward, frame[c].xin) # frame[c].summed

\* the input with its sequence positions permuted: position i holds row p[i]
Permute(x, p) ==
  Mk(x.shape, LAMBDA q :
    LET e == x.shape[3]
        t == x.shape[2]
        f == q % e
        i == (q \div e) % t
        b == q \div (e * t)
    IN  x.data[(b * t + (p[i + 1] - 1)) * e + f + 1])

Perms(t) == {p \in [1..t -> 1..t] : \A i, j \in 1..t : p[i] = p[j] => i = j}

\* C7: with the mask disabled, for every permutation p of the T positions,
\* SelfAttention.forward of the permuted input is the permuted output of
\* SelfAttention.forward of the input.
C7_PermutationEquivariance ==
  \A c \in Calls :
    (pc[c] = "blk_add1" /\ ~Attn(c).mask) =>
      \A p \in Perms(frame[c].t) :
        AttnForward(Attn(c), Permute(frame[c].xin, p)) = Permute(frame[c].attended, p)

\* the case of C7, where moreover the same instance with its mask enabled is
\* not equivariant on the same input
C7_Witness ==
  \E c \in Calls :
    /\ pc[c] = "blk_add1" /\ ~Attn(c).mask /\ ValidConfig /\ frame[c].t >= 2
    /\ \E p \in Perms(frame[c].t) :
         /\ Permute(frame[c].xin, p) # frame[c].xin
         /\ Permute(frame[c].attended, p) # frame[c].attended
         /\ LET masked == [Attn(c) EXCEPT !.mask = TRUE]
            IN  AttnForward(masked, Permute(frame[c].xin, p))
                  # Permute(AttnForward(masked, frame[c].xin), p)

\* x with the rows at the positions in S replaced by the row of token v
Alter(x, S, v) ==
  Mk(x.shape, LAMBDA q :
    LET e == x.shape[3]
        i == (q \div e) % x.shape[2]
    IN  IF i \in S THEN RowVal(v, q % e) ELSE x.data[q + 1])

\* the inputs that agree with x on the positions 0..i and differ after them
Later(x, i) ==
  {Alter(x, S, v) : S \in (SUBSET ((i + 1)..(x.shape[2] - 1))) \ {{}}, v \in Tokens}

\* rows 0..i of every batch element of y and z are the same
SameUpTo(y, z, i) ==
  /\ y.shape = z.shape
  /\ \A b \in 0..(y.shape[1] - 1), j \in 0..i, f \in 0..(y.shape[3] - 1) :
       At3(y, b, j, f) = At3(z, b, j, f)

\* C3: with the mask enabled and dropout 0, inputs that agree on the positions
\* <= i give outputs of TransformerBlock.forward, and of the stack of blocks,
\* that agree at the positions <= i.
C3_CausalNonInterference ==
  \A c \in Calls :
    (pc[c] \in {"blk_return", "done"} /\ Blk(c).mask /\ Blk(c).do.p = 0) =>
      \A i \in 0..(frame[c].t - 1) :
        /\ pc[c] = "blk_return" =>
             \A x2 \in Later(frame[c].xin, i) :
               SameUpTo(BlockForward(Blk(c), x2, AllKeep(Numel(x2.shape)),
                                     AllKeep(Numel(x2.shape))),
                        frame[c].x, i)
        /\ pc[c] = "done" =>
             \A x2 \in Later(frame[c].arg, i) :
               SameUpTo(StackForward(tblocks, x2), frame[c].ret, i)

\* a two-block stack returned an output whose row 0 is kept and whose later
\* rows change when the later rows of the input change
C3_Witness ==
  \E c \in Calls :
    /\ pc[c] = "done" /\ Blk(c).mask /\ Blk(c).do.p = 0 /\ ValidConfig
    /\ Len(tblocks) = 2 /\ frame[c].t >= 2
    /\ \E x2 \in Later(frame[c].arg, 0) :
         /\ x2 # frame[c].arg
         /\ StackForward(tblocks, x2) # frame[c].ret

\* C6: forward never changes the instance: through any interleaving of
\* concurrent calls with different inputs the configuration and the weights
\* stay as constructed and nothing is added to the instance, and what each call
\* returns is what the call returns when it runs alone.
C6_ForwardDoesNotMutate ==
  /\ [][ctor = "ok" => tblocks' = tblocks]_vars
  /\ [](\A c \in Calls :
          pc[c] = "done" => frame[c].ret = StackForward(tblocks, frame[c].arg))

C6_Witness ==
  /\ pc[1] = "done" /\ pc[2] = "attn_softmax"
  /\ frame[1].arg # frame[2].arg
  /\ frame[1].arg.shape = <<1, 2, 3>> /\ frame[2].arg.shape = <<2, 1, 3>>
  /\ frame[1].ret = StackForward(tblocks, frame[1].arg)
  /\ frame[1].ret # frame[1].arg

C10_Witness ==
  \E c \in Calls :
    /\ pc[c] = "attn_unify"
    /\ frame[c].b = 2 /\ frame[c].h = 2 /\ frame[c].t = 2 /\ frame[c].e = 2
    /\ \E i, j \in 1..Len(frame[c].out.data) : frame[c].out.data[i] # frame[c].out.data[j]
====
